---- MODULE Spec2Model ----
(***************************************************************************)
(* A model of package tablewriter (ptiger10/tablewriter).                  *)
(*                                                                         *)
(* A Go string is modelled as the sequence of its code points, each code   *)
(* point a one-character TLA+ string, so that runeWidth is Len.  A row is  *)
(* a sequence of cells, tbl.rows a sequence of rows.  Rows handed to the   *)
(* append operations are fresh slices (no two stored rows share a backing  *)
(* array); the only alias the model tracks is the one render creates       *)
(* itself, priorRow = tbl.rows[tbl.numHeaderRows].                         *)
(***************************************************************************)
EXTENDS Integers, Sequences, FiniteSets, TLC

VARIABLES
    \* Table fields (types.go, type Table)
    rows, numHeaderRows, numLabelLevels, alignment,
    autoMerge, truncateCells, autoCenterHeaders,
    \* package-level settings (types.go)
    maxColWidth,
    borderEdge, borderLabelEdge, borderFiller,
    headerEdge, headerLabelEdge, headerFiller,
    contentEdge, contentLabelEdge,
    \* the last call made by the client and what it observed
    lastOp,     \* name of the operation
    call,       \* the arguments of a call of a package function on its own
    status,     \* "ok" (nil error), "error" (non-nil error), "panic"
    position,   \* the batch position an AppendRows error names, else -1
    out,        \* the string returned by the last render
    written,    \* the strings handed to tbl.w.Write by the last Render
    writeErr,   \* whether that Write returned an error
    \* history of the successful appends
    hdrLog, bodyLog

tblVars == <<rows, numHeaderRows, numLabelLevels, alignment,
             autoMerge, truncateCells, autoCenterHeaders>>
cfgVars == <<maxColWidth, borderEdge, borderLabelEdge, borderFiller,
             headerEdge, headerLabelEdge, headerFiller,
             contentEdge, contentLabelEdge>>
obsVars == <<lastOp, call, status, position, out, written, writeErr>>
logVars == <<hdrLog, bodyLog>>
vars == <<tblVars, cfgVars, obsVars, logVars>>

----------------------------------------------------------------------------
(* Bounds of the model *)

\* most rows a table holds
MaxRows == 3
\* largest n handed to SetLabelLevelCount
MaxLabelLevels == 2
\* longest batch handed to AppendRows
MaxBatch == 2

----------------------------------------------------------------------------
(* Alignment (types.go) *)

AlignCenter == 0
AlignRight == 1
AlignLeft == 2
Alignments == {AlignCenter, AlignRight, AlignLeft}

\* the value resetDefaults gives MaxColWidth
DefaultMaxColWidth == 30

----------------------------------------------------------------------------
(* Strings *)

NL == "\n"
SP == " "
Ellipsis == <<".", ".", ".">>

RECURSIVE Concat(_)
\* the concatenation of a sequence of strings
Concat(ss) == IF ss = <<>> THEN <<>> ELSE Head(ss) \o Concat(Tail(ss))

Min(a, b) == IF a <= b THEN a ELSE b

runeWidth(s) == Len(s)

\* unicode.IsSpace on the code points of the model
IsSpace(c) == c \in {" ", "\n", "\t"}

RECURSIVE repeat(_, _)
repeat(s, n) == IF n <= 0 THEN <<>> ELSE s \o repeat(s, n - 1)

\* fmt's "%*s": s right-justified in a field of `width` code points
PadLeft(s, width) == repeat(<<SP>>, width - runeWidth(s)) \o s
\* fmt's "%-*s": s left-justified in a field of `width` code points
PadRight(s, width) == s \o repeat(<<SP>>, width - runeWidth(s))

\* fmt.Sprintln of one string
Sprintln(s) == s \o <<NL>>

\* r[lo:hi] of a Go slice, 0-based, hi exclusive
Slice(r, lo, hi) == SubSeq(r, lo + 1, hi)

RECURSIVE TrimLeftSpace(_)
\* strings.TrimLeftFunc(s, unicode.IsSpace)
TrimLeftSpace(s) ==
    IF s # <<>> /\ IsSpace(Head(s)) THEN TrimLeftSpace(Tail(s)) ELSE s

----------------------------------------------------------------------------
(* Cell formatter *)

exceedsMaxWidth(s, maxWidth) == runeWidth(s) > maxWidth

\* alignString with the centred text right-justified but never padded out
\* to the full width
alignStringUnpadded(s, width, algn) ==
    IF algn = AlignLeft THEN <<SP>> \o PadRight(s, width) \o <<SP>>
    ELSE IF algn = AlignRight THEN <<SP>> \o PadLeft(s, width) \o <<SP>>
    ELSE <<SP>> \o PadLeft(s, (width + runeWidth(s)) \div 2) \o <<SP>>

\* alignString with the centre rounded up: the odd space goes before the text
alignStringCeilLeft(s, width, algn) ==
    IF algn = AlignLeft THEN <<SP>> \o PadRight(s, width) \o <<SP>>
    ELSE IF algn = AlignRight THEN <<SP>> \o PadLeft(s, width) \o <<SP>>
    ELSE LET rightJustified ==
                 PadLeft(s, (width + runeWidth(s) + 1) \div 2)
         IN  <<SP>> \o PadRight(rightJustified, width) \o <<SP>>

alignString(s, width, algn) ==
    IF algn = AlignLeft THEN <<SP>> \o PadRight(s, width) \o <<SP>>
    ELSE IF algn = AlignRight THEN <<SP>> \o PadLeft(s, width) \o <<SP>>
    ELSE LET rightJustified == PadLeft(s, (width + runeWidth(s)) \div 2)
         IN  <<SP>> \o PadRight(rightJustified, width) \o <<SP>>

\* truncate keeping one code point more of the text before the ellipsis
truncateOneMore(s, maxWidth) ==
    IF ~exceedsMaxWidth(s, maxWidth) THEN [panic |-> FALSE, s |-> s]
    ELSE IF maxWidth - 3 < 0 THEN [panic |-> TRUE, s |-> <<>>]
    ELSE [panic |-> FALSE, s |-> Slice(s, 0, maxWidth - 2) \o Ellipsis]

\* truncate panics (slice bounds out of range) when maxWidth < 3
truncate(s, maxWidth) ==
    IF ~exceedsMaxWidth(s, maxWidth) THEN [panic |-> FALSE, s |-> s]
    ELSE IF maxWidth - 3 < 0 THEN [panic |-> TRUE, s |-> <<>>]
    ELSE [panic |-> FALSE, s |-> Slice(s, 0, maxWidth - 3) \o Ellipsis]

WrapPanic == [panic |-> TRUE, firstLine |-> <<>>, remainder |-> <<>>]
WrapResult(l, r) == [panic |-> FALSE, firstLine |-> l, remainder |-> r]

\* wrap starting the remainder one code point late where it drops the space
\* before a word
wrapDropsLetter(s, maxWidth) ==
    IF ~exceedsMaxWidth(s, maxWidth) THEN WrapResult(s, <<>>)
    ELSE IF maxWidth - 1 < 0 THEN WrapPanic
    ELSE IF IsSpace(s[maxWidth]) THEN
        WrapResult(Slice(s, 0, maxWidth - 1), Slice(s, maxWidth, Len(s)))
    ELSE IF maxWidth - 2 < 0 THEN WrapPanic
    ELSE IF IsSpace(s[maxWidth - 1]) THEN
        IF IsSpace(s[maxWidth + 1]) THEN
            WrapResult(Slice(s, 0, maxWidth),
                       TrimLeftSpace(Slice(s, maxWidth, Len(s))))
        ELSE
            WrapResult(Slice(s, 0, maxWidth - 2), Slice(s, maxWidth, Len(s)))
    ELSE WrapResult(Slice(s, 0, maxWidth - 1) \o <<"-">>,
                    Slice(s, maxWidth - 1, Len(s)))

\* wrap putting the hyphen after a word it does not split, too
wrapHyphenAfterWord(s, maxWidth) ==
    IF ~exceedsMaxWidth(s, maxWidth) THEN WrapResult(s, <<>>)
    ELSE IF maxWidth - 1 < 0 THEN WrapPanic
    ELSE IF IsSpace(s[maxWidth]) THEN
        WrapResult(Slice(s, 0, maxWidth - 1) \o <<"-">>,
                   Slice(s, maxWidth, Len(s)))
    ELSE IF maxWidth - 2 < 0 THEN WrapPanic
    ELSE IF IsSpace(s[maxWidth - 1]) THEN
        IF IsSpace(s[maxWidth + 1]) THEN
            WrapResult(Slice(s, 0, maxWidth),
                       TrimLeftSpace(Slice(s, maxWidth, Len(s))))
        ELSE
            WrapResult(Slice(s, 0, maxWidth - 2),
                       Slice(s, maxWidth - 1, Len(s)))
    ELSE WrapResult(Slice(s, 0, maxWidth - 1) \o <<"-">>,
                    Slice(s, maxWidth - 1, Len(s)))

\* wrap keeping the whitespace in front of the remainder after a
\* one-letter word
wrapUntrimmed(s, maxWidth) ==
    IF ~exceedsMaxWidth(s, maxWidth) THEN WrapResult(s, <<>>)
    ELSE IF maxWidth - 1 < 0 THEN WrapPanic
    ELSE IF IsSpace(s[maxWidth]) THEN
        WrapResult(Slice(s, 0, maxWidth - 1), Slice(s, maxWidth, Len(s)))
    ELSE IF maxWidth - 2 < 0 THEN WrapPanic
    ELSE IF IsSpace(s[maxWidth - 1]) THEN
        IF IsSpace(s[maxWidth + 1]) THEN
            WrapResult(Slice(s, 0, maxWidth), Slice(s, maxWidth, Len(s)))
        ELSE
            WrapResult(Slice(s, 0, maxWidth - 2),
                       Slice(s, maxWidth - 1, Len(s)))
    ELSE WrapResult(Slice(s, 0, maxWidth - 1) \o <<"-">>,
                    Slice(s, maxWidth - 1, Len(s)))

\* wrap panics (index out of range) when it reads r[maxWidth-1] or
\* r[maxWidth-2] at a negative index
wrap(s, maxWidth) ==
    IF ~exceedsMaxWidth(s, maxWidth) THEN WrapResult(s, <<>>)
    ELSE IF maxWidth - 1 < 0 THEN WrapPanic
    ELSE IF IsSpace(s[maxWidth]) THEN
        WrapResult(Slice(s, 0, maxWidth - 1), Slice(s, maxWidth, Len(s)))
    ELSE IF maxWidth - 2 < 0 THEN WrapPanic
    ELSE IF IsSpace(s[maxWidth - 1]) THEN
        IF IsSpace(s[maxWidth + 1]) THEN
            WrapResult(Slice(s, 0, maxWidth),
                       TrimLeftSpace(Slice(s, maxWidth, Len(s))))
        ELSE
            WrapResult(Slice(s, 0, maxWidth - 2),
                       Slice(s, maxWidth - 1, Len(s)))
    ELSE WrapResult(Slice(s, 0, maxWidth - 1) \o <<"-">>,
                    Slice(s, maxWidth - 1, Len(s)))

----------------------------------------------------------------------------
(* The table as a value: the receiver of the methods below *)

Tbl ==
    [rows |-> rows, numHeaderRows |-> numHeaderRows,
     numLabelLevels |-> numLabelLevels, alignment |-> alignment,
     autoMerge |-> autoMerge, truncateCells |-> truncateCells,
     autoCenterHeaders |-> autoCenterHeaders]

\* sameShape rejecting only the rows that are too long
sameShapeTooLongOnly(rws, row) ==
    IF Len(rws) = 0 THEN FALSE
    ELSE IF Len(row) > Len(rws[1]) THEN TRUE
    ELSE FALSE

\* sameShape returns an error (TRUE) or nil (FALSE)
sameShape(rws, row) ==
    IF Len(rws) = 0 THEN FALSE
    ELSE IF Len(row) # Len(rws[1]) THEN TRUE
    ELSE FALSE

\* AppendHeaderRow counting the header before it checks the shape
AppendHeaderRowCountsFirst(rws, nh, row) ==
    IF sameShape(rws, row)
    THEN [err |-> TRUE, rows |-> rws, numHeaderRows |-> nh + 1]
    ELSE [err |-> FALSE,
          rows |-> Append(SubSeq(rws, 1, nh), row) \o
                   SubSeq(rws, nh + 1, Len(rws)),
          numHeaderRows |-> nh + 1]

\* AppendHeaderRow putting the new header before the existing ones
AppendHeaderRowInFront(rws, nh, row) ==
    IF sameShape(rws, row)
    THEN [err |-> TRUE, rows |-> rws, numHeaderRows |-> nh]
    ELSE [err |-> FALSE, rows |-> <<row>> \o rws, numHeaderRows |-> nh + 1]

\* AppendHeaderRow: the error flag, the rows and the header count it leaves
AppendHeaderRow(rws, nh, row) ==
    IF sameShape(rws, row)
    THEN [err |-> TRUE, rows |-> rws, numHeaderRows |-> nh]
    ELSE LET headersOnly == Append(SubSeq(rws, 1, nh), row)
         IN  [err |-> FALSE,
              rows |-> headersOnly \o SubSeq(rws, nh + 1, Len(rws)),
              numHeaderRows |-> nh + 1]

\* AppendRow: the error flag and the rows it leaves
AppendRow(rws, row) ==
    IF sameShape(rws, row)
    THEN [err |-> TRUE, rows |-> rws]
    ELSE [err |-> FALSE, rows |-> Append(rws, row)]

RECURSIVE AppendRowsFrom(_, _, _)
\* the loop of AppendRows from batch position i (0-based) on
AppendRowsFrom(rws, batch, i) ==
    IF i >= Len(batch) THEN [err |-> FALSE, rows |-> rws, position |-> -1]
    ELSE LET r == AppendRow(rws, batch[i + 1])
         IN  IF r.err THEN [err |-> TRUE, rows |-> r.rows, position |-> i]
             ELSE AppendRowsFrom(r.rows, batch, i + 1)

\* AppendRows storing nothing of a batch that has a mismatching row
AppendRowsAllOrNothing(rws, batch) ==
    LET r == AppendRowsFrom(rws, batch, 0)
    IN  IF r.err THEN [r EXCEPT !.rows = rws] ELSE r

AppendRows(rws, batch) == AppendRowsFrom(rws, batch, 0)

----------------------------------------------------------------------------
(* Row-merge transform *)

\* autoMergeRows blanking the repeats but leaving priorRow as it was
autoMergeRowsKeepPrior(priorRow, currentRow) ==
    [priorRow |-> priorRow,
     currentRow |->
        [k \in 1..Len(currentRow) |->
            IF k <= Len(priorRow) /\ priorRow[k] = currentRow[k] THEN <<>>
            ELSE currentRow[k]]]

\* autoMergeRows ranges over priorRow (nil is the empty sequence) and
\* rewrites both rows in place: the rows it leaves
autoMergeRows(priorRow, currentRow) ==
    [priorRow |->
        [k \in 1..Len(priorRow) |->
            IF priorRow[k] = currentRow[k] THEN priorRow[k]
            ELSE currentRow[k]],
     currentRow |->
        [k \in 1..Len(currentRow) |->
            IF k <= Len(priorRow) /\ priorRow[k] = currentRow[k] THEN <<>>
            ELSE currentRow[k]]]

----------------------------------------------------------------------------
(* Column width resolver *)

\* resizeCell capping the header cells like the others
resizeCellCapped(w, cell, isHeader) ==
    LET cellWidth == IF runeWidth(cell) > maxColWidth THEN maxColWidth
                     ELSE runeWidth(cell)
    IN  IF cellWidth > w THEN cellWidth ELSE w

\* one pass of the inner loop body of resizeColWidths for a cell
resizeCell(w, cell, isHeader) ==
    LET w1 == IF isHeader /\ runeWidth(cell) > w THEN runeWidth(cell) ELSE w
        cellWidth == IF runeWidth(cell) > maxColWidth THEN maxColWidth
                     ELSE runeWidth(cell)
    IN  IF cellWidth > w1 THEN cellWidth ELSE w1

RECURSIVE resizeFrom(_, _, _)
\* the outer loop of resizeColWidths from row i (1-based) on
resizeFrom(tbl, i, ret) ==
    IF i > Len(tbl.rows) THEN ret
    ELSE resizeFrom(tbl, i + 1,
            [k \in 1..Len(ret) |->
                IF k <= Len(tbl.rows[i])
                THEN resizeCell(ret[k], tbl.rows[i][k],
                                i - 1 < tbl.numHeaderRows)
                ELSE ret[k]])

\* expects len(tbl.rows) > 0 and rows of one shape
resizeColWidths(tbl) ==
    resizeFrom(tbl, 1, [k \in 1..Len(tbl.rows[1]) |-> 0])

----------------------------------------------------------------------------
(* Line renderer *)

\* stringifyDividingRow with the border symbols for the header separator
\* too
stringifyDividingRowBorderOnly(colWidths, nLabelLevels, header) ==
    LET col(k) == repeat(borderFiller, 1 + colWidths[k] + 1) \o
                  (IF k - 1 = nLabelLevels - 1 THEN borderLabelEdge
                   ELSE borderEdge)
    IN  Sprintln(borderEdge
                    \o Concat([k \in 1..Len(colWidths) |-> col(k)]))

\* stringifyDividingRow putting the label edge one column late
stringifyDividingRowLabelLate(colWidths, nLabelLevels, header) ==
    LET edge == IF header THEN headerEdge ELSE borderEdge
        labelEdge == IF header THEN headerLabelEdge ELSE borderLabelEdge
        filler == IF header THEN headerFiller ELSE borderFiller
        col(k) == repeat(filler, 1 + colWidths[k] + 1) \o
                  (IF k - 1 = nLabelLevels THEN labelEdge ELSE edge)
    IN  Sprintln(edge \o Concat([k \in 1..Len(colWidths) |-> col(k)]))

stringifyDividingRow(colWidths, nLabelLevels, header) ==
    LET edge == IF header THEN headerEdge ELSE borderEdge
        labelEdge == IF header THEN headerLabelEdge ELSE borderLabelEdge
        filler == IF header THEN headerFiller ELSE borderFiller
        col(k) == repeat(filler, 1 + colWidths[k] + 1) \o
                  (IF k - 1 = nLabelLevels - 1 THEN labelEdge ELSE edge)
    IN  Sprintln(edge \o Concat([k \in 1..Len(colWidths) |-> col(k)]))

\* cellWritten aligning the header cells like the body cells
cellWrittenTableAligned(tbl, width, shown, remainder, header, k) ==
    LET sep == IF k - 1 = tbl.numLabelLevels - 1 THEN contentLabelEdge
               ELSE contentEdge
    IN  [panic |-> FALSE,
         text |-> alignString(shown, width, tbl.alignment) \o sep,
         remainder |-> remainder]

\* what the column loop of stringifyContentRow leaves for one column: the
\* text it writes (the aligned cell and the separator after it) and the
\* remainder it stores back in content[k]
cellWritten(tbl, width, shown, remainder, header, k) ==
    LET algn == IF header /\ tbl.autoCenterHeaders THEN AlignCenter
                ELSE tbl.alignment
        sep == IF k - 1 = tbl.numLabelLevels - 1 THEN contentLabelEdge
               ELSE contentEdge
    IN  [panic |-> FALSE,
         text |-> alignString(shown, width, algn) \o sep,
         remainder |-> remainder]

CellPanic == [panic |-> TRUE, text |-> <<>>, remainder |-> <<>>]

\* the truncate branch of the column loop, t the result of truncate
truncatedCell(tbl, width, t, header, k) ==
    IF t.panic THEN CellPanic
    ELSE cellWritten(tbl, width, t.s, <<>>, header, k)

\* the wrap branch of the column loop, w the result of wrap
wrappedCell(tbl, width, w, header, k) ==
    IF w.panic THEN CellPanic
    ELSE cellWritten(tbl, width, w.firstLine, w.remainder, header, k)

\* the column loop wrapping an overlong cell whatever truncateCells is
stringifyCellWraps(tbl, width, text, header, k) ==
    IF exceedsMaxWidth(text, width)
    THEN wrappedCell(tbl, width, wrap(text, width), header, k)
    ELSE cellWritten(tbl, width, text, <<>>, header, k)

\* the body of the column loop of stringifyContentRow for column k (1-based)
stringifyCell(tbl, width, text, header, k) ==
    IF exceedsMaxWidth(text, width)
    THEN IF tbl.truncateCells
         THEN truncatedCell(tbl, width, truncate(text, width), header, k)
         ELSE wrappedCell(tbl, width, wrap(text, width), header, k)
    ELSE cellWritten(tbl, width, text, <<>>, header, k)

\* a physical line followed by the lines of the passes after it
linesAfter(line, r) == [panic |-> r.panic, s |-> line \o <<NL>> \o r.s]

RECURSIVE stringifyPasses(_, _, _, _)
stringifyContentRow(tbl, colWidths, content, header) ==
    stringifyPasses(tbl, colWidths, header,
        [k \in 1..Len(colWidths) |->
            stringifyCell(tbl, colWidths[k], content[k], header, k)])

\* one pass of the outer loop of stringifyContentRow, cells what its column
\* loop left, then the passes that follow it
stringifyPasses(tbl, colWidths, header, cells) ==
    LET n == Len(colWidths)
        line == contentEdge \o Concat([k \in 1..n |-> cells[k].text])
        moreWrappedLines == \E k \in 1..n : cells[k].remainder # <<>>
    IN  IF \E k \in 1..n : cells[k].panic THEN [panic |-> TRUE, s |-> <<>>]
        ELSE IF moreWrappedLines
        THEN linesAfter(line,
                stringifyPasses(tbl, colWidths, header,
                    [k \in 1..n |->
                        stringifyCell(tbl, colWidths[k], cells[k].remainder,
                                      header, k)]))
        ELSE [panic |-> FALSE, s |-> Sprintln(line)]

\* a pass that never asks for another one: the wrapped lines are dropped
passWrittenOnce(cells) ==
    [panic |-> \E k \in 1..Len(cells) : cells[k].panic,
     line |-> contentEdge \o Concat([k \in 1..Len(cells) |-> cells[k].text]),
     content |-> [k \in 1..Len(cells) |-> cells[k].remainder],
     moreWrappedLines |-> FALSE]

\* what one pass of the outer loop of stringifyContentRow leaves, cells what
\* its column loop left: the line written, content as overwritten with the
\* remainders, and whether another pass follows
passWritten(cells) ==
    [panic |-> \E k \in 1..Len(cells) : cells[k].panic,
     line |-> contentEdge \o Concat([k \in 1..Len(cells) |-> cells[k].text]),
     content |-> [k \in 1..Len(cells) |-> cells[k].remainder],
     moreWrappedLines |->
        \E k \in 1..Len(cells) : cells[k].remainder # <<>>]

\* one pass of the outer loop of stringifyContentRow on content as the
\* passes before it left it
contentRowPass(tbl, colWidths, content, header) ==
    passWritten([k \in 1..Len(colWidths) |->
                    stringifyCell(tbl, colWidths[k], content[k], header, k)])

----------------------------------------------------------------------------
(* Table orchestrator *)

\* the locals and the heap the row loop of render changes: rows is tbl.rows,
\* priorRef the index (1-based) of the stored row priorRow points into (0
\* for nil), ret the string so far
renderState(rws, priorRef, ret, panic) ==
    [rows |-> rws, priorRef |-> priorRef, ret |-> ret, panic |-> panic]

\* the line render writes before row i (0-based)
lineBefore(tbl, i, colWidths) ==
    IF i = 0
    THEN stringifyDividingRow(colWidths, tbl.numLabelLevels, FALSE)
    ELSE IF i = tbl.numHeaderRows
    THEN stringifyDividingRow(colWidths, tbl.numLabelLevels, TRUE)
    ELSE <<>>

\* the end of an iteration of the row loop: c the result of
\* stringifyContentRow on the row copy
rowWritten(rws, priorRef, ret, c) ==
    renderState(rws, priorRef, ret \o c.s, c.panic)

\* an iteration with autoMerge set: m the rows autoMergeRows left; priorRow
\* is tbl.rows[priorRef], so what autoMergeRows stored in it is stored in
\* the table
mergedRow(tbl, st, i, colWidths, priorRef, m) ==
    rowWritten(IF priorRef = 0 THEN st.rows
               ELSE [st.rows EXCEPT ![priorRef] = m.priorRow],
               priorRef,
               st.ret \o lineBefore(tbl, i, colWidths),
               stringifyContentRow(tbl, colWidths, m.currentRow,
                                   i < tbl.numHeaderRows))

\* the merge step of an iteration, priorRef as the iteration has set it
mergeRow(tbl, st, i, colWidths, priorRef) ==
    mergedRow(tbl, st, i, colWidths, priorRef,
              autoMergeRows(IF priorRef = 0 THEN <<>> ELSE st.rows[priorRef],
                            st.rows[i + 1]))

\* one iteration of the row loop of render, for row i (0-based)
renderRow(tbl, st, i, colWidths) ==
    IF tbl.autoMerge
    THEN mergeRow(tbl, st, i, colWidths,
                  IF i = tbl.numHeaderRows + 1 THEN tbl.numHeaderRows + 1
                  ELSE st.priorRef)
    ELSE rowWritten(st.rows, st.priorRef,
                    st.ret \o lineBefore(tbl, i, colWidths),
                    stringifyContentRow(tbl, colWidths, st.rows[i + 1],
                                        i < tbl.numHeaderRows))

RECURSIVE renderFrom(_, _, _, _)
\* the row loop of render from row i (0-based) on
renderFrom(tbl, st, i, colWidths) ==
    IF st.panic \/ i >= Len(tbl.rows) THEN st
    ELSE renderFrom(tbl, renderRow(tbl, st, i, colWidths), i + 1, colWidths)

\* render returning without the border line at the bottom
renderResultNoBottom(st, borderLine) ==
    IF st.panic
    THEN [status |-> "panic", s |-> <<>>, rows |-> st.rows]
    ELSE [status |-> "ok", s |-> st.ret, rows |-> st.rows]

\* what render returns once the row loop has left st
renderResult(st, borderLine) ==
    IF st.panic
    THEN [status |-> "panic", s |-> <<>>, rows |-> st.rows]
    ELSE [status |-> "ok", s |-> st.ret \o borderLine, rows |-> st.rows]

\* render from the row loop on, colWidths being resizeColWidths()
renderRows(tbl, colWidths) ==
    renderResult(renderFrom(tbl, renderState(tbl.rows, 0, <<>>, FALSE), 0,
                            colWidths),
                 stringifyDividingRow(colWidths, tbl.numLabelLevels, FALSE))

\* render: its outcome ("ok", "error" or "panic"), the string it returns
\* and tbl.rows as it leaves them.  A table whose rows differ in shape, which
\* no client can build, makes resizeColWidths or stringifyContentRow index
\* out of range.
render(tbl) ==
    IF Len(tbl.rows) = 0
    THEN [status |-> "error", s |-> <<>>, rows |-> tbl.rows]
    ELSE IF \E i \in 1..Len(tbl.rows) : Len(tbl.rows[i]) # Len(tbl.rows[1])
    THEN [status |-> "panic", s |-> <<>>, rows |-> tbl.rows]
    ELSE renderRows(tbl, resizeColWidths(tbl))

\* the Write of Render with the error of Write dropped
RenderWriteUnchecked(r, writeFails) ==
    IF r.status # "ok"
    THEN [status |-> r.status, s |-> r.s, written |-> <<>>,
          writeErr |-> FALSE, rows |-> r.rows]
    ELSE [status |-> "ok", s |-> r.s,
          written |-> <<r.s>>, writeErr |-> writeFails, rows |-> r.rows]

\* the Write of Render: r what render returned, writeFails whether tbl.w
\* returns an error
RenderWrite(r, writeFails) ==
    IF r.status # "ok"
    THEN [status |-> r.status, s |-> r.s, written |-> <<>>,
          writeErr |-> FALSE, rows |-> r.rows]
    ELSE [status |-> IF writeFails THEN "error" ELSE "ok", s |-> r.s,
          written |-> <<r.s>>, writeErr |-> writeFails, rows |-> r.rows]

\* Render: render, then one Write of the string to tbl.w: the outcome, the
\* Writes made and tbl.rows as it leaves them
Render(tbl, writeFails) == RenderWrite(render(tbl), writeFails)

----------------------------------------------------------------------------
(* Package settings *)

\* singleWidthString taking every string that is not empty
singleWidthStringNotEmpty(s) == Len(s) >= 1

singleWidthString(s) == Len(s) = 1
doubleWidthString(s) == Len(s) = 2

\* the Defaults resetDefaults hands to ChangeDefaults
InitialDefaults ==
    [BorderEdge |-> <<"+">>, BorderLabelEdge |-> <<"+", "+">>,
     BorderFiller |-> <<"-">>,
     HeaderEdge |-> <<"|">>, HeaderLabelEdge |-> <<"|", "|">>,
     HeaderFiller |-> <<"-">>,
     ContentEdge |-> <<"|">>, ContentLabelEdge |-> <<"|", "|">>,
     MaxColWidth |-> DefaultMaxColWidth]

\* a Defaults with every field at its zero value
ZeroDefaults ==
    [BorderEdge |-> <<>>, BorderLabelEdge |-> <<>>, BorderFiller |-> <<>>,
     HeaderEdge |-> <<>>, HeaderLabelEdge |-> <<>>, HeaderFiller |-> <<>>,
     ContentEdge |-> <<>>, ContentLabelEdge |-> <<>>, MaxColWidth |-> 0]

\* ChangeDefaults taking the border filler only along with the border edge
ChangeDefaultsFillerWithEdge(defaults) ==
    /\ borderEdge' = IF singleWidthString(defaults.BorderEdge)
                     THEN defaults.BorderEdge ELSE borderEdge
    /\ borderLabelEdge' = IF doubleWidthString(defaults.BorderLabelEdge)
                          THEN defaults.BorderLabelEdge ELSE borderLabelEdge
    /\ borderFiller' = IF singleWidthString(defaults.BorderFiller)
                          /\ singleWidthString(defaults.BorderEdge)
                       THEN defaults.BorderFiller ELSE borderFiller
    /\ headerEdge' = IF singleWidthString(defaults.HeaderEdge)
                     THEN defaults.HeaderEdge ELSE headerEdge
    /\ headerLabelEdge' = IF doubleWidthString(defaults.HeaderLabelEdge)
                          THEN defaults.HeaderLabelEdge ELSE headerLabelEdge
    /\ headerFiller' = IF singleWidthString(defaults.HeaderFiller)
                       THEN defaults.HeaderFiller ELSE headerFiller
    /\ contentEdge' = IF singleWidthString(defaults.ContentEdge)
                      THEN defaults.ContentEdge ELSE contentEdge
    /\ contentLabelEdge' = IF doubleWidthString(defaults.ContentLabelEdge)
                           THEN defaults.ContentLabelEdge
                           ELSE contentLabelEdge
    /\ maxColWidth' = IF defaults.MaxColWidth > 0
                      THEN defaults.MaxColWidth ELSE maxColWidth

\* ChangeDefaults as a step on the package variables
ChangeDefaults(defaults) ==
    /\ borderEdge' = IF singleWidthString(defaults.BorderEdge)
                     THEN defaults.BorderEdge ELSE borderEdge
    /\ borderLabelEdge' = IF doubleWidthString(defaults.BorderLabelEdge)
                          THEN defaults.BorderLabelEdge ELSE borderLabelEdge
    /\ borderFiller' = IF singleWidthString(defaults.BorderFiller)
                       THEN defaults.BorderFiller ELSE borderFiller
    /\ headerEdge' = IF singleWidthString(defaults.HeaderEdge)
                     THEN defaults.HeaderEdge ELSE headerEdge
    /\ headerLabelEdge' = IF doubleWidthString(defaults.HeaderLabelEdge)
                          THEN defaults.HeaderLabelEdge ELSE headerLabelEdge
    /\ headerFiller' = IF singleWidthString(defaults.HeaderFiller)
                       THEN defaults.HeaderFiller ELSE headerFiller
    /\ contentEdge' = IF singleWidthString(defaults.ContentEdge)
                      THEN defaults.ContentEdge ELSE contentEdge
    /\ contentLabelEdge' = IF doubleWidthString(defaults.ContentLabelEdge)
                           THEN defaults.ContentLabelEdge
                           ELSE contentLabelEdge
    /\ maxColWidth' = IF defaults.MaxColWidth > 0
                      THEN defaults.MaxColWidth ELSE maxColWidth

----------------------------------------------------------------------------
(* Inputs of the clients the model runs *)

CellA == <<"a">>
CellB == <<"b">>
CellLong == <<"a", "b", " ", "c", "d">>

\* rows handed to the append operations: one and two cells wide
RowInputs ==
    {<<CellA>>, <<CellA, CellB>>, <<CellLong, CellB>>, <<CellB, CellLong>>}

\* batches handed to AppendRows
BatchInputs ==
    UNION {[1..n -> RowInputs] : n \in 0..MaxBatch}

\* Defaults handed to ChangeDefaults while a table is in use
DefaultsInputs ==
    {[ZeroDefaults EXCEPT !.MaxColWidth = w] : w \in {0, 1, 3}}

----------------------------------------------------------------------------
(* The state after package init and NewTable *)

InitTable ==
    /\ rows = <<>>
    /\ alignment = AlignCenter
    /\ numHeaderRows = 0
    /\ numLabelLevels = 0
    /\ autoMerge = FALSE
    /\ truncateCells = FALSE
    /\ autoCenterHeaders = TRUE

InitPackage ==
    /\ borderEdge = InitialDefaults.BorderEdge
    /\ borderLabelEdge = InitialDefaults.BorderLabelEdge
    /\ borderFiller = InitialDefaults.BorderFiller
    /\ headerEdge = InitialDefaults.HeaderEdge
    /\ headerLabelEdge = InitialDefaults.HeaderLabelEdge
    /\ headerFiller = InitialDefaults.HeaderFiller
    /\ contentEdge = InitialDefaults.ContentEdge
    /\ contentLabelEdge = InitialDefaults.ContentLabelEdge
    /\ maxColWidth = InitialDefaults.MaxColWidth

InitObserved ==
    /\ lastOp = "NewTable"
    /\ status = "ok"
    /\ position = -1
    /\ out = <<>>
    /\ written = <<>>
    /\ writeErr = FALSE
    /\ hdrLog = <<>>
    /\ bodyLog = <<>>

Init ==
    /\ InitTable
    /\ InitPackage
    /\ InitObserved
    /\ call = <<>>

\* a call is made by a client whose process is alive
Alive == status # "panic"

\* what a call that is not a render leaves in the observation variables
Observe(op, st, pos) ==
    /\ lastOp' = op
    /\ status' = st
    /\ position' = pos
    /\ out' = <<>>
    /\ written' = <<>>
    /\ writeErr' = FALSE
    /\ call' = call

optVars == <<numLabelLevels, alignment, autoMerge, truncateCells,
             autoCenterHeaders>>

----------------------------------------------------------------------------
(* The calls on a table *)

CallAppendHeaderRow(row) ==
    /\ Alive
    /\ Len(rows) < MaxRows
    /\ \E r \in {AppendHeaderRow(rows, numHeaderRows, row)} :
           /\ rows' = r.rows
           /\ numHeaderRows' = r.numHeaderRows
           /\ hdrLog' = IF r.err THEN hdrLog ELSE Append(hdrLog, row)
           /\ Observe("AppendHeaderRow", IF r.err THEN "error" ELSE "ok", -1)
    /\ UNCHANGED <<optVars, cfgVars, bodyLog>>

CallAppendRow(row) ==
    /\ Alive
    /\ Len(rows) < MaxRows
    /\ \E r \in {AppendRow(rows, row)} :
           /\ rows' = r.rows
           /\ bodyLog' = IF r.err THEN bodyLog ELSE Append(bodyLog, row)
           /\ Observe("AppendRow", IF r.err THEN "error" ELSE "ok", -1)
    /\ UNCHANGED <<numHeaderRows, optVars, cfgVars, hdrLog>>

CallAppendRows(batch) ==
    /\ Alive
    /\ Len(rows) + Len(batch) <= MaxRows
    /\ \E r \in {AppendRows(rows, batch)} :
           /\ rows' = r.rows
           /\ bodyLog' = bodyLog \o SubSeq(r.rows, Len(rows) + 1, Len(r.rows))
           /\ Observe("AppendRows", IF r.err THEN "error" ELSE "ok",
                      r.position)
    /\ UNCHANGED <<numHeaderRows, optVars, cfgVars, hdrLog>>

CallDisableHeaderAutoCentering ==
    /\ Alive
    /\ autoCenterHeaders' = FALSE
    /\ Observe("DisableHeaderAutoCentering", "ok", -1)
    /\ UNCHANGED <<rows, numHeaderRows, numLabelLevels, alignment, autoMerge,
                   truncateCells, cfgVars, logVars>>

CallMergeRepeats ==
    /\ Alive
    /\ autoMerge' = TRUE
    /\ Observe("MergeRepeats", "ok", -1)
    /\ UNCHANGED <<rows, numHeaderRows, numLabelLevels, alignment,
                   truncateCells, autoCenterHeaders, cfgVars, logVars>>

CallTruncateWideCells ==
    /\ Alive
    /\ truncateCells' = TRUE
    /\ Observe("TruncateWideCells", "ok", -1)
    /\ UNCHANGED <<rows, numHeaderRows, numLabelLevels, alignment, autoMerge,
                   autoCenterHeaders, cfgVars, logVars>>

CallSetAlignment(a) ==
    /\ Alive
    /\ alignment' = a
    /\ Observe("SetAlignment", "ok", -1)
    /\ UNCHANGED <<rows, numHeaderRows, numLabelLevels, autoMerge,
                   truncateCells, autoCenterHeaders, cfgVars, logVars>>

CallSetLabelLevelCount(n) ==
    /\ Alive
    /\ numLabelLevels' = n
    /\ Observe("SetLabelLevelCount", "ok", -1)
    /\ UNCHANGED <<rows, numHeaderRows, alignment, autoMerge,
                   truncateCells, autoCenterHeaders, cfgVars, logVars>>

CallChangeDefaults(defaults) ==
    /\ Alive
    /\ ChangeDefaults(defaults)
    /\ Observe("ChangeDefaults", "ok", -1)
    /\ UNCHANGED <<tblVars, logVars>>

\* a call of the unexported render, as the package's tests make it
Callrender ==
    /\ Alive
    /\ \E r \in {render(Tbl)} :
           /\ rows' = r.rows
           /\ status' = r.status
           /\ out' = r.s
    /\ lastOp' = "render"
    /\ position' = -1
    /\ written' = <<>>
    /\ writeErr' = FALSE
    /\ UNCHANGED <<numHeaderRows, optVars, cfgVars, logVars, call>>

\* Render on a table whose writer fails or not, as the environment decides
CallRender(writeFails) ==
    /\ Alive
    /\ \E r \in {Render(Tbl, writeFails)} :
           /\ rows' = r.rows
           /\ status' = r.status
           /\ out' = r.s
           /\ written' = r.written
           /\ writeErr' = r.writeErr
    /\ lastOp' = "Render"
    /\ position' = -1
    /\ UNCHANGED <<numHeaderRows, optVars, cfgVars, logVars, call>>

\* every call a client can make on a table and on the package
Next ==
    \/ \E row \in RowInputs : CallAppendHeaderRow(row)
    \/ \E row \in RowInputs : CallAppendRow(row)
    \/ \E batch \in BatchInputs : CallAppendRows(batch)
    \/ CallDisableHeaderAutoCentering
    \/ CallMergeRepeats
    \/ CallTruncateWideCells
    \/ \E a \in Alignments : CallSetAlignment(a)
    \/ \E n \in 0..MaxLabelLevels : CallSetLabelLevelCount(n)
    \/ \E defaults \in DefaultsInputs : CallChangeDefaults(defaults)
    \/ Callrender
    \/ \E writeFails \in BOOLEAN : CallRender(writeFails)

Spec == Init /\ [][Next]_vars

(* The clients below make some of the calls of Next only, which keeps the  *)
(* states each property ranges over few enough to enumerate.               *)

\* a client that only appends
NextAppend ==
    \/ \E row \in RowInputs : CallAppendHeaderRow(row)
    \/ \E row \in RowInputs : CallAppendRow(row)
    \/ \E batch \in BatchInputs : CallAppendRows(batch)

SpecAppend == Init /\ [][NextAppend]_vars

\* a client that builds a table, may ask for merged repeats and a narrower
\* maximum column width, and renders
NextBuild ==
    \/ \E row \in RowInputs : CallAppendHeaderRow(row)
    \/ \E row \in RowInputs : CallAppendRow(row)
    \/ \E batch \in BatchInputs : CallAppendRows(batch)
    \/ CallMergeRepeats
    \/ \E defaults \in DefaultsInputs : CallChangeDefaults(defaults)
    \/ Callrender
    \/ \E writeFails \in BOOLEAN : CallRender(writeFails)

SpecBuild == Init /\ [][NextBuild]_vars

\* most rows of the table of the client that sets the format options
MaxFormatRows == 2

\* the rows that client appends: a short and a long cell in either order
FormatRows == {<<CellA, CellLong>>, <<CellLong, CellB>>}

\* the Defaults that client hands to ChangeDefaults: a maximum column width
\* unset, too narrow for an overflowing cell, of the 3 code points of the
\* ellipsis, and wider
FormatDefaults ==
    {[ZeroDefaults EXCEPT !.MaxColWidth = w] : w \in {0, 1, 3, 4}}

\* a client that builds a small table, sets the format options and the
\* maximum column width, and renders
NextFormat ==
    \/ \E row \in FormatRows :
          Len(rows) < MaxFormatRows /\ CallAppendHeaderRow(row)
    \/ \E row \in FormatRows :
          Len(rows) < MaxFormatRows /\ CallAppendRow(row)
    \/ CallDisableHeaderAutoCentering
    \/ CallTruncateWideCells
    \/ \E a \in Alignments : CallSetAlignment(a)
    \/ \E n \in 0..MaxLabelLevels : CallSetLabelLevelCount(n)
    \/ \E defaults \in FormatDefaults : CallChangeDefaults(defaults)
    \/ Callrender

SpecFormat == Init /\ [][NextFormat]_vars

----------------------------------------------------------------------------
(* Calls of the cell formatter on its own, as the package's tests make them *)

\* the texts handed to the formatter: every text of at most MaxTextLen code
\* points over a letter, another letter and the space
MaxTextLen == 3
\* the widest field handed to the formatter
MaxWidth == 6

Texts == UNION {[1..n -> {"a", "b", " "}] : n \in 0..MaxTextLen}

alignStringCalls ==
    [fn : {"alignString"}, s : Texts, width : 0..MaxWidth,
     alignment : Alignments]

\* the longest text handed to truncate and wrap
MaxWrapLen == 5

WrapTexts == UNION {[1..n -> {"a", "b", " "}] : n \in 0..MaxWrapLen}

truncateCalls == [fn : {"truncate"}, s : WrapTexts, maxWidth : 0..MaxWidth]

wrapCalls == [fn : {"wrap"}, s : WrapTexts, maxWidth : 0..MaxWidth]

\* most cells of the rows handed to autoMergeRows
MaxMergeCols == 2

\* the rows handed to autoMergeRows: cells empty or one of two texts
MergeRows ==
    UNION {[1..n -> {<<>>, CellA, CellB}] : n \in 0..MaxMergeCols}

\* autoMergeRows is handed two rows with the same number of cells
autoMergeRowsCalls ==
    {c \in [fn : {"autoMergeRows"}, priorRow : MergeRows,
            currentRow : MergeRows] :
        Len(c.priorRow) = Len(c.currentRow)}

\* the widest column handed to stringifyDividingRow
MaxDividerWidth == 2

\* the widths handed to it, of no, one and two columns
DividerWidths ==
    {<<>>} \cup {<<w>> : w \in 0..MaxDividerWidth}
        \cup ((0..MaxDividerWidth) \X (0..MaxDividerWidth))

stringifyDividingRowCalls ==
    [fn : {"stringifyDividingRow"}, colWidths : DividerWidths,
     numLabelLevels : 0..(MaxLabelLevels + 1), header : BOOLEAN]

\* the Defaults a client may set before it asks for a dividing row: symbols
\* for the border and the header separator that all differ
DividerDefaults ==
    {[ZeroDefaults EXCEPT !.BorderEdge = <<"*">>,
                          !.BorderLabelEdge = <<"*", "#">>,
                          !.BorderFiller = <<"=">>,
                          !.HeaderEdge = <<":">>,
                          !.HeaderLabelEdge = <<":", "%">>,
                          !.HeaderFiller = <<"~">>]}

InitFormatter ==
    /\ InitTable
    /\ InitPackage
    /\ InitObserved
    /\ call \in alignStringCalls \cup truncateCalls \cup wrapCalls
                \cup autoMergeRowsCalls \cup stringifyDividingRowCalls

CallalignString ==
    /\ lastOp = "NewTable"
    /\ call.fn = "alignString"
    /\ lastOp' = "alignString"
    /\ out' = alignString(call.s, call.width, call.alignment)
    /\ UNCHANGED <<tblVars, cfgVars, logVars, call, status, position,
                   written, writeErr>>

\* a call of truncate: the string it returns, or the panic
Calltruncate ==
    /\ lastOp = "NewTable"
    /\ call.fn = "truncate"
    /\ lastOp' = "truncate"
    /\ \E t \in {truncate(call.s, call.maxWidth)} :
           /\ status' = IF t.panic THEN "panic" ELSE "ok"
           /\ out' = t.s
    /\ UNCHANGED <<tblVars, cfgVars, logVars, call, position,
                   written, writeErr>>

\* a call of wrap: the pair (firstLine, remainder) it returns, or the panic
Callwrap ==
    /\ lastOp = "NewTable"
    /\ call.fn = "wrap"
    /\ lastOp' = "wrap"
    /\ \E w \in {wrap(call.s, call.maxWidth)} :
           /\ status' = IF w.panic THEN "panic" ELSE "ok"
           /\ out' = <<w.firstLine, w.remainder>>
    /\ UNCHANGED <<tblVars, cfgVars, logVars, call, position,
                   written, writeErr>>

\* a call of autoMergeRows: the two rows as it leaves them, priorRow first
CallautoMergeRows ==
    /\ lastOp = "NewTable"
    /\ call.fn = "autoMergeRows"
    /\ lastOp' = "autoMergeRows"
    /\ \E m \in {autoMergeRows(call.priorRow, call.currentRow)} :
           out' = <<m.priorRow, m.currentRow>>
    /\ UNCHANGED <<tblVars, cfgVars, logVars, call, status, position,
                   written, writeErr>>

\* a call of stringifyDividingRow, with the symbols of package init or
\* those a call of ChangeDefaults has set before
CallstringifyDividingRow ==
    /\ lastOp \in {"NewTable", "ChangeDefaults"}
    /\ call.fn = "stringifyDividingRow"
    /\ lastOp' = "stringifyDividingRow"
    /\ out' = stringifyDividingRow(call.colWidths, call.numLabelLevels,
                                   call.header)
    /\ UNCHANGED <<tblVars, cfgVars, logVars, call, status, position,
                   written, writeErr>>

NextFormatter ==
    \/ CallalignString
    \/ Calltruncate
    \/ Callwrap
    \/ CallautoMergeRows
    \/ \E defaults \in DividerDefaults :
          /\ lastOp = "NewTable"
          /\ call.fn = "stringifyDividingRow"
          /\ CallChangeDefaults(defaults)
    \/ CallstringifyDividingRow

SpecFormatter == InitFormatter /\ [][NextFormatter]_vars

----------------------------------------------------------------------------
(* Calls of ChangeDefaults on their own, as TestChangeDefaults makes them *)

\* most fields a Defaults handed to ChangeDefaults sets
MaxFieldsSet == 2

SymbolFields ==
    {"BorderEdge", "BorderLabelEdge", "BorderFiller",
     "HeaderEdge", "HeaderLabelEdge", "HeaderFiller",
     "ContentEdge", "ContentLabelEdge"}

DefaultsFields == SymbolFields \cup {"MaxColWidth"}

\* the values a field is set to: a symbol of one and of two code points, a
\* negative and a positive width
SymbolInputs == <<<<"*">>, <<"*", "=">>>>
WidthInputs == <<-1, 3>>

\* the Defaults that sets the fields of S as `choice` says and leaves the
\* others at their zero value
DefaultsSetting(S, choice) ==
    [n \in DefaultsFields |->
        IF n \notin S THEN ZeroDefaults[n]
        ELSE IF n = "MaxColWidth" THEN WidthInputs[choice[n]]
        ELSE SymbolInputs[choice[n]]]

\* every Defaults that sets at most MaxFieldsSet fields
AnyDefaults ==
    UNION {{DefaultsSetting(S, choice) : choice \in [S -> {1, 2}]} :
            S \in {T \in SUBSET DefaultsFields :
                     Cardinality(T) <= MaxFieldsSet}}

\* a client that calls ChangeDefaults twice
InitDefaults ==
    /\ InitTable
    /\ InitPackage
    /\ InitObserved
    /\ call \in [fn : {"ChangeDefaults"}, args : AnyDefaults \X AnyDefaults,
                  done : {0}]

\* the next call of ChangeDefaults the client makes
CallChangeDefaultsNext ==
    /\ call.fn = "ChangeDefaults"
    /\ call.done < Len(call.args)
    /\ ChangeDefaults(call.args[call.done + 1])
    /\ call' = [call EXCEPT !.done = @ + 1]
    /\ lastOp' = "ChangeDefaults"
    /\ UNCHANGED <<tblVars, logVars, status, position, out, written,
                   writeErr>>

NextDefaults ==
    \/ CallChangeDefaultsNext

SpecDefaults == InitDefaults /\ [][NextDefaults]_vars

----------------------------------------------------------------------------
(* A call of stringifyContentRow pass by pass *)

\* the longest cell of the row handed to stringifyContentRow
MaxLoopLen == 4
\* the widest column handed to it
MaxLoopWidth == 3

LoopTexts == UNION {[1..n -> {"a", " "}] : n \in 0..MaxLoopLen}

\* rows of one cell, and of two with a short or a longer second cell, and
\* a width for each column
LoopRows ==
    {<<t>> : t \in LoopTexts}
        \cup (LoopTexts \X {CellA, <<"a", " ", "a">>})
LoopWidths ==
    {<<w>> : w \in 1..MaxLoopWidth}
        \cup ((1..MaxLoopWidth) \X (1..MaxLoopWidth))

\* given is the row as handed in, content the slice the passes overwrite
stringifyContentRowCalls ==
    {[fn |-> "stringifyContentRow", colWidths |-> x[2], given |-> x[1],
      content |-> x[1], header |-> x[3]] :
        x \in {y \in LoopRows \X LoopWidths \X BOOLEAN :
                  Len(y[1]) = Len(y[2])}}

InitRowLoop ==
    /\ InitTable
    /\ InitPackage
    /\ InitObserved
    /\ call \in stringifyContentRowCalls

\* one pass of the outer loop: status is "running" while another pass
\* follows, "ok" once stringifyContentRow has returned
PassstringifyContentRow ==
    /\ call.fn = "stringifyContentRow"
    /\ \/ lastOp = "NewTable"
       \/ lastOp = "stringifyContentRow" /\ status = "running"
    /\ lastOp' = "stringifyContentRow"
    /\ \E p \in {contentRowPass(Tbl, call.colWidths, call.content,
                                 call.header)} :
           /\ status' = IF p.panic THEN "panic"
                        ELSE IF p.moreWrappedLines THEN "running" ELSE "ok"
           /\ out' = IF p.panic THEN out ELSE out \o p.line \o <<NL>>
           /\ call' = IF p.panic THEN call
                      ELSE [call EXCEPT !.content = p.content]
    /\ UNCHANGED <<tblVars, cfgVars, logVars, position, written, writeErr>>

NextRowLoop ==
    \/ PassstringifyContentRow

\* the loop is sequential code: a pass that can run does run
SpecRowLoop ==
    InitRowLoop /\ [][NextRowLoop]_vars /\ WF_vars(NextRowLoop)

----------------------------------------------------------------------------
(* Properties *)

RenderOps == {"render", "Render"}

\* every stored row has the cell count of the first
SameShapeRows(rws) == \A i \in 1..Len(rws) : Len(rws[i]) = Len(rws[1])

\* the greatest element of a non-empty set of numbers
SetMax(S) == CHOOSE m \in S : \A x \in S : x <= m

Spaces(n) == [i \in 1..n |-> SP]

\* C1: a render that returns leaves tbl.rows cell for cell as they were
\* before the call.
C1_RenderLeavesRows ==
    [][(lastOp' \in RenderOps /\ status' # "panic") => rows' = rows]_vars

\* C2: two render calls in a row, with no other call between them, return
\* the same string.
C2_RenderRepeatable ==
    [][(lastOp = "render" /\ status = "ok" /\
        lastOp' = "render" /\ status' = "ok") => out' = out]_vars

\* C3: after any sequence of append calls, failed or not, every stored row
\* has the cell count of rows[0].
C3_ShapeInvariant == SameShapeRows(rows)

\* an append has failed on a table that holds header and body rows
C3_Witness ==
    /\ lastOp \in {"AppendRow", "AppendHeaderRow", "AppendRows"}
    /\ status = "error"
    /\ numHeaderRows >= 1
    /\ Len(rows) > numHeaderRows

\* C4: AppendRow and AppendHeaderRow, handed a row whose cell count differs
\* from rows[0] of a non-empty table, return an error and leave rows and
\* numHeaderRows as they were.
C4_MismatchRejected ==
    [][lastOp' \in {"AppendRow", "AppendHeaderRow"} =>
        \A row \in RowInputs :
          ((CallAppendRow(row) \/ CallAppendHeaderRow(row))
            /\ Len(rows) > 0 /\ Len(row) # Len(rows[1]))
          => (status' = "error" /\ rows' = rows
              /\ numHeaderRows' = numHeaderRows)]_vars

\* AppendHeaderRow has failed on a table that holds header and body rows
C4_Witness ==
    /\ lastOp = "AppendHeaderRow"
    /\ status = "error"
    /\ numHeaderRows >= 1
    /\ Len(rows) > numHeaderRows

\* C5 as stated: an AppendRows that returns an error leaves rows as they
\* were before the call.
C5_BatchAtomic ==
    [][(lastOp' = "AppendRows" /\ status' = "error") => rows' = rows]_vars

\* the position (1-based) of the first row of the batch whose cell count
\* differs from that of the first row of the table and the batch together
FirstMismatch(rws, batch) ==
    LET all == rws \o batch
        bad == {i \in 1..Len(batch) :
                  Len(rws) + i > 1 /\ Len(batch[i]) # Len(all[1])}
    IN  IF bad = {} THEN 0
        ELSE CHOOSE i \in bad : \A j \in bad : i <= j

\* C5 amended: an AppendRows that returns an error has stored the rows of
\* the batch that precede its first mismatching row, in order, and none from
\* that row on, and names the position of that row; rows are as before the
\* call only when the mismatching row is the first of the batch.
C5_BatchPrefixStored ==
    [][(lastOp' = "AppendRows" /\ status' = "error") =>
        \A batch \in BatchInputs :
          CallAppendRows(batch)
          => LET i == FirstMismatch(rows, batch)
             IN  /\ i >= 1
                 /\ position' = i - 1
                 /\ rows' = rows \o SubSeq(batch, 1, i - 1)
                 /\ (rows' = rows <=> i = 1)]_vars

\* AppendRows has failed at a position after the first of its batch
C5_Witness ==
    /\ lastOp = "AppendRows"
    /\ status = "error"
    /\ position >= 1

\* C6: numHeaderRows is the number of successful AppendHeaderRow calls and at
\* most len(rows); the first numHeaderRows rows are the headers in the order
\* they were appended and the rest the body rows in the order they were
\* appended.
C6_HeaderBodyPartition ==
    /\ numHeaderRows = Len(hdrLog)
    /\ numHeaderRows <= Len(rows)
    /\ SubSeq(rows, 1, numHeaderRows) = hdrLog
    /\ SubSeq(rows, numHeaderRows + 1, Len(rows)) = bodyLog

\* a second, different header has been appended to a table that already
\* held a body row
C6_Witness ==
    /\ lastOp = "AppendHeaderRow"
    /\ status = "ok"
    /\ numHeaderRows = 2
    /\ Len(rows) > numHeaderRows
    /\ rows[1] # rows[2]

\* C7: render and Render return an error exactly when the table has no row
\* or, for Render, the Write returned an error; on a table with no row render
\* returns the empty string and Render makes no Write; otherwise Render makes
\* one Write, of the string render returned.
C7_RenderErrors ==
    (lastOp \in RenderOps /\ status # "panic") =>
        /\ status = "error" <=> (Len(rows) = 0 \/ writeErr)
        /\ lastOp = "render" => ~writeErr /\ written = <<>>
        /\ Len(rows) = 0 => (out = <<>> /\ written = <<>>)
        /\ (lastOp = "Render" /\ Len(rows) > 0) => written = <<out>>

\* Render has failed on a table with rows because the Write failed
C7_Witness ==
    /\ lastOp = "Render"
    /\ status = "error"
    /\ Len(rows) > 0
    /\ writeErr
    /\ Len(written) = 1

C9_AlignWidth ==
    (lastOp = "alignString" /\ Len(call.s) <= call.width) =>
        /\ Len(out) = call.width + 2
        /\ out[1] = SP
        /\ out[Len(out)] = SP
        /\ \E i \in 2..Len(out) :
              /\ i + Len(call.s) - 1 <= Len(out) - 1
              /\ SubSeq(out, i, i + Len(call.s) - 1) = call.s
              /\ \A j \in 1..Len(out) :
                    (j < i \/ j > i + Len(call.s) - 1) => out[j] = SP

\* a text shorter than the width has been aligned to the right
C9_Witness ==
    /\ lastOp = "alignString"
    /\ call.alignment = AlignRight
    /\ call.s = <<"a", "b">>
    /\ call.width = 4
    /\ out = <<SP, SP, SP, "a", "b", SP>>

\* C10: for len(s) <= w, centre alignment puts floor((w - len(s)) / 2)
\* padding spaces before s and ceil((w - len(s)) / 2) after it, inside the
\* one-space buffers.
C10_CenterSplit ==
    (lastOp = "alignString" /\ call.alignment = AlignCenter
        /\ Len(call.s) <= call.width) =>
        LET pad == call.width - Len(call.s)
        IN  out = <<SP>> \o Spaces(pad \div 2) \o call.s
                    \o Spaces(pad - (pad \div 2)) \o <<SP>>

\* a text of 3 code points has been centred in a width of 6
C10_Witness ==
    /\ lastOp = "alignString"
    /\ call.alignment = AlignCenter
    /\ call.s = <<"a", "b", "a">>
    /\ call.width = 6
    /\ out = <<SP, SP, "a", "b", "a", SP, SP, SP>>

\* the padding alignString has to add around the text of the call
CallPad == call.width - Len(call.s)

\* C11 as stated: in centre alignment with w - len(s) odd, the padding
\* before s is one space longer than the padding after it.
C11_OddSpaceLeft ==
    (lastOp = "alignString" /\ call.alignment = AlignCenter
        /\ CallPad > 0 /\ CallPad % 2 = 1) =>
        out = <<SP>> \o Spaces((CallPad \div 2) + 1) \o call.s
                \o Spaces(CallPad \div 2) \o <<SP>>

\* C11 amended: in centre alignment with w - len(s) odd, the padding after
\* s is one space longer than the padding before it: the odd space goes to
\* the right of the text.
C11_OddSpaceRight ==
    (lastOp = "alignString" /\ call.alignment = AlignCenter
        /\ CallPad > 0 /\ CallPad % 2 = 1) =>
        \E before \in 0..call.width :
            /\ before + Len(call.s) + (before + 1) = call.width
            /\ out = <<SP>> \o Spaces(before) \o call.s
                        \o Spaces(before + 1) \o <<SP>>

\* a text of 2 code points has been centred in a width of 5
C11_Witness ==
    /\ lastOp = "alignString"
    /\ call.alignment = AlignCenter
    /\ call.s = <<"a", "b">>
    /\ call.width = 5
    /\ out = <<SP, SP, "a", "b", SP, SP, SP>>

\* C12: truncate(s, w) returns s when len(s) <= w; when len(s) > w >= 3 it
\* returns w code points, the first w - 3 of s and then "...".
C12_Truncate ==
    lastOp = "truncate" =>
        /\ Len(call.s) <= call.maxWidth => (status = "ok" /\ out = call.s)
        /\ (Len(call.s) > call.maxWidth /\ call.maxWidth >= 3) =>
              /\ status = "ok"
              /\ Len(out) = call.maxWidth
              /\ SubSeq(out, 1, call.maxWidth - 3)
                    = SubSeq(call.s, 1, call.maxWidth - 3)
              /\ SubSeq(out, call.maxWidth - 2, call.maxWidth)
                    = <<".", ".", ".">>

\* a text of 5 code points has been truncated to 4
C12_Witness ==
    /\ lastOp = "truncate"
    /\ call.s = <<"a", "b", " ", "a", "b">>
    /\ call.maxWidth = 4
    /\ out = <<"a", ".", ".", ".">>

\* the code points of s that are not whitespace, in order
NonSpace(s) == SelectSeq(s, LAMBDA c : ~IsSpace(c))

IsPrefix(p, s) == Len(p) <= Len(s) /\ SubSeq(s, 1, Len(p)) = p

\* a first line of wrap without the hyphen wrap appended to it, if it did
Unhyphenated(line, s) ==
    IF line # <<>> /\ line[Len(line)] = "-" /\ ~IsPrefix(line, s)
    THEN SubSeq(line, 1, Len(line) - 1)
    ELSE line

\* C13: for w >= 2 and len(s) > w, the non-whitespace code points of the
\* first line wrap returns, its hyphen left out, followed by those of the
\* remainder are those of s in order; for len(s) <= w the first line is s
\* and the remainder is empty.
C13_WrapConserves ==
    lastOp = "wrap" =>
        /\ Len(call.s) <= call.maxWidth =>
              (status = "ok" /\ out = <<call.s, <<>>>>)
        /\ (Len(call.s) > call.maxWidth /\ call.maxWidth >= 2) =>
              /\ status = "ok"
              /\ NonSpace(Unhyphenated(out[1], call.s)) \o NonSpace(out[2])
                    = NonSpace(call.s)

\* a one-letter word has been kept on the first line and the spaces after
\* it dropped
C13_Witness ==
    /\ lastOp = "wrap"
    /\ call.s = <<" ", "a", " ", " ", "b">>
    /\ call.maxWidth = 2
    /\ out = <<<<" ", "a">>, <<"b">>>>

\* the call of wrap splits a word: the text is longer than the width and
\* neither r[maxWidth-1] nor r[maxWidth-2] is whitespace
SplitsWord ==
    /\ Len(call.s) > call.maxWidth
    /\ call.maxWidth >= 2
    /\ ~IsSpace(call.s[call.maxWidth])
    /\ ~IsSpace(call.s[call.maxWidth - 1])

\* C20: when wrap splits a word, the first line is the first w - 1 code
\* points of s and a hyphen, w code points in all, and the remainder is s
\* from index w - 1 on; in every other case the first line is a prefix of s,
\* with no hyphen appended.
C20_Hyphenation ==
    (lastOp = "wrap" /\ status = "ok") =>
        /\ SplitsWord =>
              /\ out[1] = SubSeq(call.s, 1, call.maxWidth - 1) \o <<"-">>
              /\ Len(out[1]) = call.maxWidth
              /\ out[2] = SubSeq(call.s, call.maxWidth, Len(call.s))
        /\ ~SplitsWord => IsPrefix(out[1], call.s)

\* a word of 4 code points has been split after its second
C20_Witness ==
    /\ lastOp = "wrap"
    /\ call.s = <<"a", "b", "a", "b", " ">>
    /\ call.maxWidth = 3
    /\ out = <<<<"a", "b", "-">>, <<"a", "b", " ">>>>

\* the rows with every body cell below the first body row that repeats the
\* cell directly above it blanked; nh is the number of header rows
MergeBlanked(rws, nh) ==
    [i \in 1..Len(rws) |->
        [k \in 1..Len(rws[i]) |->
            IF i - 1 > nh /\ rws[i][k] = rws[i - 1][k] THEN <<>>
            ELSE rws[i][k]]]

\* C14: with autoMerge on, render returns what it would return with
\* autoMerge off, in columns of the same widths, for the rows as stored at
\* the call with exactly the body cells at rows i > numHeaderRows that equal
\* the cell directly above them blanked; header rows and the first body row
\* keep their text.  With autoMerge off no cell is blanked.
C14_MergeBlanksRepeats ==
    [][(lastOp' \in RenderOps /\ status' # "panic" /\ Len(rows) > 0) =>
        out' = renderRows(
                  [Tbl EXCEPT !.autoMerge = FALSE,
                              !.rows = IF autoMerge
                                       THEN MergeBlanked(rows, numHeaderRows)
                                       ELSE rows],
                  resizeColWidths(Tbl)).s]_vars

\* a merged render of a header and two body rows, all three the same: the
\* first body row shows its text under the header, the second is blank
C14_Witness ==
    /\ lastOp = "render"
    /\ status = "ok"
    /\ autoMerge
    /\ numHeaderRows = 1
    /\ rows = <<<<CellA, CellB>>, <<CellA, CellB>>, <<CellA, CellB>>>>
    /\ out = renderRows(
                [Tbl EXCEPT !.autoMerge = FALSE,
                            !.rows = <<<<CellA, CellB>>, <<CellA, CellB>>,
                                       <<<<>>, <<>>>>>>],
                <<1, 1>>).s

\* the index of the first newline of s, Len(s) + 1 when it has none
FirstNL(s) ==
    IF \E j \in 1..Len(s) : s[j] = NL
    THEN CHOOSE j \in 1..Len(s) :
            s[j] = NL /\ \A h \in 1..(j - 1) : s[h] # NL
    ELSE Len(s) + 1

RECURSIVE SplitLines(_)
\* the physical lines of a rendered string, each without its newline
SplitLines(s) ==
    IF s = <<>> THEN <<>>
    ELSE <<SubSeq(s, 1, FirstNL(s) - 1)>>
            \o SplitLines(SubSeq(s, FirstNL(s) + 1, Len(s)))

\* the code points of the boundary after column k (1-based) of a line, 1
\* for the leading edge (k = 0), with n label levels
EdgeLen(n, k) == IF k >= 1 /\ k = n THEN 2 ELSE 1

RECURSIVE EdgePos(_, _, _)
\* where the boundary after column k starts in a line whose columns are
\* colWidths wide, each with a buffer of one code point on either side
EdgePos(colWidths, n, k) ==
    IF k = 0 THEN 1
    ELSE EdgePos(colWidths, n, k - 1) + EdgeLen(n, k - 1)
            + colWidths[k] + 2

\* what a line shows between the boundaries around column k
Segment(line, colWidths, n, k) ==
    SubSeq(line, EdgePos(colWidths, n, k - 1) + EdgeLen(n, k - 1),
           EdgePos(colWidths, n, k) - 1)

\* the line has the ordinary edge `edge` as its leading edge and at every
\* column boundary but the one after column n, where it has labelEdge, and
\* ends with its last boundary
HasEdges(line, colWidths, n, edge, labelEdge) ==
    /\ Len(line) = EdgePos(colWidths, n, Len(colWidths))
                      + EdgeLen(n, Len(colWidths)) - 1
    /\ \A k \in 0..Len(colWidths) :
          SubSeq(line, EdgePos(colWidths, n, k),
                 EdgePos(colWidths, n, k) + EdgeLen(n, k) - 1)
            = IF k >= 1 /\ k = n THEN labelEdge ELSE edge

\* the last call was a render that returned a string
Rendered == lastOp \in RenderOps /\ status = "ok" /\ Len(rows) > 0

\* C15: with 1 <= numLabelLevels <= number of columns, every physical line
\* of the render, wrapped continuation lines included, has the two code
\* points of the label edge of its kind at the boundary after column
\* numLabelLevels - 1 (0-based) and the one code point of its ordinary edge
\* as leading edge and at every other boundary.
C15_LabelEdge ==
    (Rendered /\ numLabelLevels >= 1 /\ numLabelLevels <= Len(rows[1])) =>
        \A line \in {SplitLines(out)[j] : j \in 1..Len(SplitLines(out))} :
            \/ HasEdges(line, resizeColWidths(Tbl), numLabelLevels,
                        borderEdge, borderLabelEdge)
            \/ HasEdges(line, resizeColWidths(Tbl), numLabelLevels,
                        headerEdge, headerLabelEdge)
            \/ HasEdges(line, resizeColWidths(Tbl), numLabelLevels,
                        contentEdge, contentLabelEdge)

\* a table with one label level, a header and a body row wrapped onto a
\* second line has been rendered
C15_Witness ==
    /\ Rendered
    /\ numLabelLevels = 1
    /\ numHeaderRows = 1
    /\ rows = <<<<CellA, CellLong>>, <<CellLong, CellB>>>>
    /\ Len(SplitLines(out)) = 6

\* the header-separator line of the table, without its newline
HeaderLine ==
    SplitLines(stringifyDividingRow(resizeColWidths(Tbl), numLabelLevels,
                                    TRUE))[1]

\* the indices of the physical lines of the render that are the
\* header-separator line
HeaderLineAt ==
    {j \in 1..Len(SplitLines(out)) : SplitLines(out)[j] = HeaderLine}

\* C16 as stated: a render of a table with numHeaderRows >= 1 has the
\* header-separator line exactly once, directly beneath the last header row
\* (a header cell is never wider than its column, so the header rows are
\* the lines 2 .. numHeaderRows + 1); with numHeaderRows = 0 it has none.
C16_HeaderSeparator ==
    Rendered =>
        IF numHeaderRows = 0 THEN HeaderLineAt = {}
        ELSE HeaderLineAt = {numHeaderRows + 2}

\* the ends of a text without the spaces around it
TrimSpace(s) ==
    IF \A j \in 1..Len(s) : IsSpace(s[j]) THEN <<>>
    ELSE SubSeq(s,
                CHOOSE j \in 1..Len(s) :
                    ~IsSpace(s[j]) /\ \A h \in 1..(j - 1) : IsSpace(s[h]),
                CHOOSE j \in 1..Len(s) :
                    ~IsSpace(s[j]) /\ \A h \in (j + 1)..Len(s) : IsSpace(s[h]))

\* the indices of the physical lines of the render that are dividing lines:
\* the borders and, when body rows follow the header rows, the header
\* separator
DividingLineAt ==
    {1, Len(SplitLines(out))}
        \cup (IF numHeaderRows >= 1 /\ numHeaderRows < Len(rows)
              THEN {numHeaderRows + 2} ELSE {})

\* the alignment C17 gives the cells of physical line j
ClaimedAlignment(j) ==
    IF j <= numHeaderRows + 1 /\ autoCenterHeaders THEN AlignCenter
    ELSE alignment

\* C17: in every content line of a render, each cell is the text it shows
\* (a text with no space at either end) aligned in the width of its column:
\* centred in the lines of the header rows when autoCenterHeaders is set,
\* whatever the table alignment; with the table alignment in the lines of
\* the body rows, and in those of the header rows too after
\* DisableHeaderAutoCentering.
C17_HeaderCentering ==
    Rendered =>
        \A j \in (1..Len(SplitLines(out))) \ DividingLineAt :
            \A k \in 1..Len(rows[1]) :
                Segment(SplitLines(out)[j], resizeColWidths(Tbl),
                        numLabelLevels, k)
                  = alignString(
                        TrimSpace(Segment(SplitLines(out)[j],
                                          resizeColWidths(Tbl),
                                          numLabelLevels, k)),
                        resizeColWidths(Tbl)[k], ClaimedAlignment(j))

\* a left-aligned table has been rendered with its header centred: the
\* header cell and the body cell of the first column are both shorter than
\* the column is wide
C17_Witness ==
    /\ Rendered
    /\ autoCenterHeaders
    /\ alignment = AlignLeft
    /\ numHeaderRows = 1
    /\ rows = <<<<CellA, CellLong>>, <<CellLong, CellB>>>>
    /\ maxColWidth = DefaultMaxColWidth
    /\ Segment(SplitLines(out)[2], <<5, 5>>, numLabelLevels, 1)
          = <<SP, SP, SP, "a", SP, SP, SP>>
    /\ Segment(SplitLines(out)[4], <<5, 5>>, numLabelLevels, 2)
          = <<SP, "b", SP, SP, SP, SP, SP>>

\* C18: after package init and any calls of ChangeDefaults, the edges and
\* the fillers are 1 code point each, the label edges 2 code points each,
\* and maxColWidth is positive.
C18_SettingsValid ==
    /\ \A e \in {borderEdge, borderFiller, headerEdge, headerFiller,
                  contentEdge} : Len(e) = 1
    /\ \A e \in {borderLabelEdge, headerLabelEdge, contentLabelEdge} :
          Len(e) = 2
    /\ maxColWidth > 0

\* ChangeDefaults has taken a border edge and then been handed a label edge
\* of one code point and a negative width, which it has ignored
C18_Witness ==
    /\ lastOp = "ChangeDefaults"
    /\ call.done = 2
    /\ call.args[1].BorderEdge = <<"*">>
    /\ call.args[2].BorderLabelEdge = <<"*">>
    /\ call.args[2].MaxColWidth = -1
    /\ borderEdge = <<"*">>
    /\ borderLabelEdge = <<"+", "+">>
    /\ maxColWidth = DefaultMaxColWidth

\* a symbol setting after a call: the field handed in when it has n code
\* points, else the setting as it was
SymbolTaken(new, old, given, n) ==
    new = IF Len(given) = n THEN given ELSE old

\* C19: a call of ChangeDefaults replaces each setting by its own field of
\* the Defaults when that field is valid (1 code point for an edge or a
\* filler, 2 for a label edge, positive for MaxColWidth) and leaves it as it
\* was otherwise, whatever the other fields are.
C19_PerField ==
    [][(lastOp' = "ChangeDefaults" /\ call'.done = call.done + 1) =>
        /\ SymbolTaken(borderEdge', borderEdge,
                       call.args[call'.done].BorderEdge, 1)
        /\ SymbolTaken(borderLabelEdge', borderLabelEdge,
                       call.args[call'.done].BorderLabelEdge, 2)
        /\ SymbolTaken(borderFiller', borderFiller,
                       call.args[call'.done].BorderFiller, 1)
        /\ SymbolTaken(headerEdge', headerEdge,
                       call.args[call'.done].HeaderEdge, 1)
        /\ SymbolTaken(headerLabelEdge', headerLabelEdge,
                       call.args[call'.done].HeaderLabelEdge, 2)
        /\ SymbolTaken(headerFiller', headerFiller,
                       call.args[call'.done].HeaderFiller, 1)
        /\ SymbolTaken(contentEdge', contentEdge,
                       call.args[call'.done].ContentEdge, 1)
        /\ SymbolTaken(contentLabelEdge', contentLabelEdge,
                       call.args[call'.done].ContentLabelEdge, 2)
        /\ maxColWidth' = IF call.args[call'.done].MaxColWidth > 0
                          THEN call.args[call'.done].MaxColWidth
                          ELSE maxColWidth]_vars

\* ChangeDefaults has taken a border filler and a width, and then a content
\* edge handed in with a border filler of two code points, which it has
\* ignored
C19_Witness ==
    /\ lastOp = "ChangeDefaults"
    /\ call.done = 2
    /\ call.args[1].BorderFiller = <<"*">>
    /\ call.args[1].MaxColWidth = 3
    /\ call.args[2].BorderFiller = <<"*", "=">>
    /\ call.args[2].ContentEdge = <<"*">>
    /\ borderFiller = <<"*">>
    /\ contentEdge = <<"*">>
    /\ borderEdge = <<"+">>
    /\ maxColWidth = 3

\* the code point of the text of the call at index i (0-based) is there and
\* is whitespace
SpaceAt(i) == i >= 0 /\ i < Len(call.s) /\ IsSpace(call.s[i + 1])

\* the code point of the text of the call at index i (0-based) is there and
\* is not whitespace
LetterAt(i) == i >= 0 /\ i < Len(call.s) /\ ~IsSpace(call.s[i + 1])

\* s without the whitespace at its start
WithoutLeadingSpace(s) ==
    IF \A j \in 1..Len(s) : IsSpace(s[j]) THEN <<>>
    ELSE SubSeq(s, CHOOSE j \in 1..Len(s) :
                      ~IsSpace(s[j]) /\ \A h \in 1..(j - 1) : IsSpace(s[h]),
                Len(s))

\* C21: for len(s) > w, (1) when the code point at index w - 1 is
\* whitespace, wrap returns the line s[0..w-1) and the remainder s[w..];
\* (2) else when those at index w - 2 and at index w are whitespace, the
\* line s[0..w) and the remainder s[w..] without its leading whitespace;
\* (3) else when that at index w - 2 is whitespace, the line s[0..w-2) and
\* the remainder s[w-1..].
C21_WrapAtSpace ==
    (lastOp = "wrap" /\ Len(call.s) > call.maxWidth) =>
        /\ SpaceAt(call.maxWidth - 1) =>
              /\ status = "ok"
              /\ out[1] = SubSeq(call.s, 1, call.maxWidth - 1)
              /\ out[2] = SubSeq(call.s, call.maxWidth + 1, Len(call.s))
        /\ (LetterAt(call.maxWidth - 1) /\ SpaceAt(call.maxWidth - 2)
              /\ SpaceAt(call.maxWidth)) =>
              /\ status = "ok"
              /\ out[1] = SubSeq(call.s, 1, call.maxWidth)
              /\ out[2] = WithoutLeadingSpace(
                              SubSeq(call.s, call.maxWidth + 1, Len(call.s)))
        /\ (LetterAt(call.maxWidth - 1) /\ SpaceAt(call.maxWidth - 2)
              /\ ~SpaceAt(call.maxWidth)) =>
              /\ status = "ok"
              /\ out[1] = SubSeq(call.s, 1, call.maxWidth - 2)
              /\ out[2] = SubSeq(call.s, call.maxWidth, Len(call.s))

\* a text has been wrapped at the space two code points before the cut,
\* in the middle of the word that follows it
C21_Witness ==
    /\ lastOp = "wrap"
    /\ call.s = <<"a", "b", " ", "a", "b">>
    /\ call.maxWidth = 4
    /\ out = <<<<"a", "b">>, <<"a", "b">>>>

\* C22: autoMergeRows, handed rows of equal length, in every column k on
\* its own blanks current[k] and leaves prior[k] when the two are equal,
\* and else stores current[k] in prior[k] and leaves current[k]; prior is
\* then the current row as handed in, and a row merged against an equal row
\* is blank in every column.
C22_MergeStep ==
    lastOp = "autoMergeRows" =>
        /\ Len(out[1]) = Len(call.priorRow)
        /\ Len(out[2]) = Len(call.currentRow)
        /\ \A k \in 1..Len(call.priorRow) :
              IF call.priorRow[k] = call.currentRow[k]
              THEN out[2][k] = <<>> /\ out[1][k] = call.priorRow[k]
              ELSE out[1][k] = call.currentRow[k]
                   /\ out[2][k] = call.currentRow[k]
        /\ out[1] = call.currentRow
        /\ call.priorRow = call.currentRow =>
              \A k \in 1..Len(out[2]) : out[2][k] = <<>>

\* two rows that agree in the first column and differ in the second have
\* been merged
C22_Witness ==
    /\ lastOp = "autoMergeRows"
    /\ call.priorRow = <<CellA, CellB>>
    /\ call.currentRow = <<CellA, CellA>>
    /\ out = <<<<CellA, CellA>>, <<<<>>, CellA>>>>

\* C23: when row i (0-based) is the first row of the batch handed to
\* AppendRows whose cell count mismatches, AppendRows returns an error that
\* names position i and the table holds its rows as before followed by the
\* rows 0..i-1 of the batch in order, and nothing of row i and the rows
\* after it; a batch with no mismatching row is stored whole.
C23_PartialBatch ==
    [][lastOp' = "AppendRows" =>
        \A batch \in BatchInputs :
          CallAppendRows(batch) =>
            IF FirstMismatch(rows, batch) = 0
            THEN status' = "ok" /\ rows' = rows \o batch
            ELSE /\ status' = "error"
                 /\ position' + 1 = FirstMismatch(rows, batch)
                 /\ Len(rows') = Len(rows) + position'
                 /\ SubSeq(rows', 1, Len(rows)) = rows
                 /\ \A j \in 1..position' : rows'[Len(rows) + j] = batch[j]
                 /\ bodyLog' = bodyLog \o SubSeq(batch, 1, position')]_vars

\* AppendRows has stored the first row of a batch of two under a header and
\* failed on the second
C23_Witness ==
    /\ lastOp = "AppendRows"
    /\ status = "error"
    /\ position = 1
    /\ numHeaderRows = 1
    /\ Len(rows) = 2
    /\ bodyLog = <<rows[2]>>

RECURSIVE WrapSteps(_, _)
\* the passes a column of width w needs to show the text s: one, and those
\* the remainder wrap leaves needs
WrapSteps(s, w) ==
    IF Len(s) <= w \/ wrap(s, w).panic \/ wrap(s, w).remainder = <<>> THEN 1
    ELSE 1 + WrapSteps(wrap(s, w).remainder, w)

\* every column of the call that its cell overflows is 2 or more wide
WideEnough ==
    /\ call.fn = "stringifyContentRow"
    /\ \A k \in 1..Len(call.given) :
          Len(call.given[k]) > call.colWidths[k] => call.colWidths[k] >= 2

\* stringifyContentRow has returned with every remainder empty
RowDone ==
    /\ lastOp = "stringifyContentRow"
    /\ status = "ok"
    /\ \A k \in 1..Len(call.content) : call.content[k] = <<>>

\* the loop of a call with wide enough columns reaches its terminal state
C24_Terminates == WideEnough ~> RowDone

\* each pass of such a call writes one physical line and leaves every
\* remainder that was not empty shorter
C24_PassShortens ==
    [][(lastOp' = "stringifyContentRow" /\ WideEnough) =>
        /\ status' # "panic"
        /\ Len(SplitLines(out')) = Len(SplitLines(out)) + 1
        /\ \A k \in 1..Len(call.content) :
              call.content[k] # <<>> =>
                  Len(call'.content[k]) < Len(call.content[k])]_vars

\* the lines written when the call returns are as many as the slowest
\* column needs passes, and are the string stringifyContentRow returns
C24_LineCount ==
    [](RowDone /\ WideEnough =>
        /\ Len(SplitLines(out))
              = SetMax({WrapSteps(call.given[k], call.colWidths[k]) :
                          k \in 1..Len(call.given)})
        /\ out = stringifyContentRow(Tbl, call.colWidths, call.given,
                                     call.header).s)

\* C24: in wrap mode, with every overflowing column 2 or more wide, the
\* loop of stringifyContentRow reaches the state where every remainder is
\* empty after finitely many passes; each pass writes one physical line and
\* shortens every remainder that is not empty, so that the row takes as
\* many physical lines as its slowest column needs passes.
C24_RowLoop == C24_Terminates /\ C24_PassShortens /\ C24_LineCount

\* a row of two cells has taken three passes, the second cell being done
\* after the first pass
C24_Witness ==
    /\ RowDone
    /\ call.given = <<<<"a", "a", "a", "a">>, <<"a">>>>
    /\ call.colWidths = <<2, 1>>
    /\ Len(SplitLines(out)) = 3

\* the physical line of row i (1-based) of a render in which every row
\* takes one line
RowLine(i) ==
    i + 1 + (IF numHeaderRows >= 1 /\ i > numHeaderRows THEN 1 ELSE 0)

\* what C25 says a cell shows in a column w wide
TruncatedText(cell, w) ==
    IF Len(cell) > w THEN SubSeq(cell, 1, w - 3) \o <<".", ".", ".">>
    ELSE cell

\* C25: with truncateCells set and maxColWidth >= 3, a render has one
\* physical line for each row (and the dividing lines), and a cell longer
\* than the width w of its column shows its first w - 3 code points and
\* "...", aligned in the column, nothing of it on a further line.
C25_TruncateOneLine ==
    (Rendered /\ truncateCells /\ maxColWidth >= 3) =>
        /\ Len(SplitLines(out)) = Len(rows) + Cardinality(DividingLineAt)
        /\ \A i \in 1..Len(rows) :
              \A k \in 1..Len(rows[i]) :
                  Segment(SplitLines(out)[RowLine(i)], resizeColWidths(Tbl),
                          numLabelLevels, k)
                    = alignString(
                          TruncatedText(rows[i][k], resizeColWidths(Tbl)[k]),
                          resizeColWidths(Tbl)[k],
                          ClaimedAlignment(RowLine(i)))

\* two body rows with a cell of 5 code points each have been rendered in
\* truncate mode in columns 4 wide
C25_Witness ==
    /\ Rendered
    /\ truncateCells
    /\ maxColWidth = 4
    /\ numHeaderRows = 0
    /\ rows = <<<<CellA, CellLong>>, <<CellLong, CellB>>>>
    /\ Len(SplitLines(out)) = 4
    /\ Segment(SplitLines(out)[2], <<4, 4>>, numLabelLevels, 2)
          = alignString(<<"a", ".", ".", ".">>, 4, alignment)

\* the dividing row of the call without its last code point
DividerLine == SubSeq(out, 1, Len(out) - 1)

\* C26: stringifyDividingRow(widths, n, header) is the leading edge, then
\* for each column k (0-based) widths[k] + 2 filler symbols and the label
\* edge if k = n - 1, the ordinary edge otherwise, then one newline; the
\* symbols are those of the header separator when header is true and those
\* of the border otherwise.
C26_DividingRow ==
    lastOp = "stringifyDividingRow" =>
        /\ out # <<>>
        /\ out[Len(out)] = NL
        /\ \A j \in 1..Len(DividerLine) : DividerLine[j] # NL
        /\ HasEdges(DividerLine, call.colWidths, call.numLabelLevels,
                    IF call.header THEN headerEdge ELSE borderEdge,
                    IF call.header THEN headerLabelEdge ELSE borderLabelEdge)
        /\ \A k \in 1..Len(call.colWidths) :
              Segment(DividerLine, call.colWidths, call.numLabelLevels, k)
                = [j \in 1..(call.colWidths[k] + 2) |->
                      IF call.header THEN headerFiller[1]
                      ELSE borderFiller[1]]

\* a header separator of two columns with one label level has been made
\* with symbols set by ChangeDefaults
C26_Witness ==
    /\ lastOp = "stringifyDividingRow"
    /\ call.header
    /\ call.colWidths = <<1, 2>>
    /\ call.numLabelLevels = 1
    /\ out = <<":", "~", "~", "~", ":", "%", "~", "~", "~", "~", ":", NL>>

\* the border line of the table, without its newline
BorderLine ==
    SplitLines(stringifyDividingRow(resizeColWidths(Tbl), numLabelLevels,
                                    FALSE))[1]

\* the content lines of the stored row i (1-based), each with its newline
ContentLines(i) ==
    stringifyContentRow(Tbl, resizeColWidths(Tbl), rows[i],
                        i - 1 < numHeaderRows).s

\* the header-separator line with its newline before the first body row when
\* header rows precede it, nothing before any other row
SeparatorBefore(i) ==
    IF i > 1 /\ i - 1 = numHeaderRows THEN HeaderLine \o <<NL>> ELSE <<>>

\* C27: a render that returns a string returns the border line, then the
\* content lines of the rows in storage order, with the header separator
\* only between the header rows and the body rows, then the border line
\* again; no other line is the border line and the string ends with a
\* newline.
C27_Framing ==
    Rendered =>
        /\ out = BorderLine \o <<NL>>
                    \o Concat([i \in 1..Len(rows) |->
                                  SeparatorBefore(i) \o ContentLines(i)])
                    \o BorderLine \o <<NL>>
        /\ \A j \in 2..(Len(SplitLines(out)) - 1) :
              SplitLines(out)[j] # BorderLine
        /\ out[Len(out)] = NL

\* a header row and a body row wrapped onto two lines have been rendered:
\* border, header, separator, two content lines, border
C27_Witness ==
    /\ Rendered
    /\ numHeaderRows = 1
    /\ Len(rows) = 2
    /\ Len(SplitLines(out)) = 6
    /\ SplitLines(out)[3] = HeaderLine
    /\ SplitLines(out)[6] = BorderLine

\* C28 as stated: with any maxColWidth >= 1 that ChangeDefaults has accepted
\* (1 and 2 included) and any table with rows built by the append
\* operations, render completes and returns a string, in the wrap mode and
\* in the truncate mode: truncate is not reached with maxWidth < 3 and wrap
\* does not index outside the text.
C28_NoFault ==
    (lastOp \in RenderOps /\ Len(rows) > 0 /\ maxColWidth >= 1) =>
        status = "ok"

RECURSIVE SumBuffered(_)
\* the sum over the columns of the width of the column plus its two buffers
SumBuffered(colWidths) ==
    IF colWidths = <<>> THEN 0
    ELSE Head(colWidths) + 2 + SumBuffered(Tail(colWidths))

\* the number of code points C29 gives every physical line
ClaimedLineWidth ==
    1 + SumBuffered(resizeColWidths(Tbl)) + Len(rows[1])
      + (IF 1 <= numLabelLevels /\ numLabelLevels <= Len(rows[1]) THEN 1
         ELSE 0)

\* C29: with maxColWidth >= 3, every physical line of a render (borders,
\* header separator, content lines, wrapped continuation lines and lines
\* with truncated cells included) has 1 + the sum over the columns of
\* (width + 2) + the number of columns code points, and one more when
\* 1 <= numLabelLevels <= number of columns.
C29_UniformWidth ==
    (Rendered /\ maxColWidth >= 3) =>
        \A j \in 1..Len(SplitLines(out)) :
            Len(SplitLines(out)[j]) = ClaimedLineWidth

\* a table with a label level and a header has been rendered with
\* maxColWidth 3 and a body cell wrapped onto a continuation line
C29_Witness ==
    /\ Rendered
    /\ maxColWidth = 3
    /\ numLabelLevels = 1
    /\ numHeaderRows = 1
    /\ ~truncateCells
    /\ Len(SplitLines(out)) > Len(rows) + Cardinality(DividingLineAt)

\* C30: in every render that returns a string, each header row produces
\* one physical line, the lines 2 .. numHeaderRows + 1 being those of the
\* header rows in order and the next line a dividing line, and that line
\* shows the full text of every header cell, aligned in the width of its
\* column: a column is at least as wide as its widest header cell, whatever
\* maxColWidth is and whichever overflow mode is set.
C30_HeaderOneLine ==
    Rendered =>
        /\ \A i \in 1..numHeaderRows :
              /\ HasEdges(SplitLines(out)[i + 1], resizeColWidths(Tbl),
                          numLabelLevels, contentEdge, contentLabelEdge)
              /\ \A k \in 1..Len(rows[i]) :
                    /\ resizeColWidths(Tbl)[k] >= runeWidth(rows[i][k])
                    /\ Segment(SplitLines(out)[i + 1], resizeColWidths(Tbl),
                               numLabelLevels, k)
                         = alignString(rows[i][k], resizeColWidths(Tbl)[k],
                                       ClaimedAlignment(i + 1))
        /\ numHeaderRows >= 1 =>
              SplitLines(out)[numHeaderRows + 2]
                = (IF numHeaderRows < Len(rows) THEN HeaderLine
                   ELSE BorderLine)

\* a header row with a cell of five code points has been rendered with
\* maxColWidth 1, or with maxColWidth 3 in the truncate mode above a body
\* row
C30_Witness ==
    /\ Rendered
    /\ numHeaderRows >= 1
    /\ \E k \in 1..Len(rows[1]) : rows[1][k] = CellLong
    /\ \/ maxColWidth = 1
       \/ maxColWidth = 3 /\ truncateCells /\ Len(rows) > numHeaderRows

====
